---- MODULE Spec2Model ----
(***************************************************************************)
(* UDP transparent-redirect relay (src/relay/udprelay/redir_local.rs).     *)
(*                                                                         *)
(* The model follows the three kinds of task of the file:                  *)
(*   - the ingress loop of `run` (one flow of control),                    *)
(*   - the local -> remote (egress) task spawned by                        *)
(*     UdpAssociation::associate, one per association,                     *)
(*   - the local <- remote (reply) task spawned by the same function.      *)
(* They share the association map (an LruCache with an expiry duration     *)
(* behind a tokio Mutex) and, per association, one bounded mpsc queue and  *)
(* one Arc'd oneshot sender (the watcher).                                 *)
(*                                                                         *)
(* Time is kept as ages: every cache entry carries the time since its last *)
(* touch and the ingress loop the time it has been waiting in recv_from;   *)
(* both saturate just past the expiry duration, which is all the code      *)
(* compares them with.                                                     *)
(***************************************************************************)
EXTENDS Integers, Sequences, FiniteSets

(* ---------------------------- bounds ----------------------------------- *)

\* Non-empty datagrams the ingress loop accepts in one run of free traffic
\* (a run of the burst accepts the datagrams of Burst).
MaxPkts == 2

\* Associations created in one run.
MaxAssoc == 2

\* Slots of an association's egress queue (the code passes 1024 to
\* mpsc::channel; the model scales the capacity down, to a queue that can
\* hold more than one payload).
ChannelSize == 2


(* ---------------------------- time ------------------------------------- *)

\* `timeout`, the expiry duration of the map and the bound of the receive
\* wait.  The model's clock counts in units of it: an age of 0 is "just
\* touched", an age of 1 "touched at most one duration ago", anything
\* above it "touched longer ago than the duration".
Expiry == 1

(* ---------------------------- addresses -------------------------------- *)

\* A socket address is <<ip, port>>.
Srcs == {<<10, 4000>>}
Dsts == {<<20, 53>>, <<30, 53>>}

\* Payload byte strings a datagram may carry; <<>> is the zero-length one.
\* The n-th non-empty datagram of a run carries <<n>>, so that payloads are
\* pairwise distinct and a loss, a duplicate or a swap shows in the histories.
Payloads == {<<>>} \cup {<<n>> : n \in 1..MaxPkts}

\* A burst of traffic, as the destinations of its non-empty datagrams in
\* the order of arrival: two datagrams of one flow, one of a second flow,
\* one more of the first.  It fills the queue of the first flow while the
\* second flow is being created.
Burst == <<<<20, 53>>, <<20, 53>>, <<30, 53>>, <<20, 53>>>>

Dash == -1

\* A key that leaves the destination out.
cache_key_src_only(src, dst) == src \o <<Dash>> \o src

\* format!("{}-{}", src, dst)
cache_key(src, dst) == src \o <<Dash>> \o dst

Keys == {cache_key(s, d) : s \in Srcs, d \in Dsts}

AtypIpv4 == 1

\* Address::write_to_buf for an IPv4 socket address: type, ip, port (2 bytes)
write_to_buf(addr) == <<AtypIpv4, addr[1], addr[2] \div 256, addr[2] % 256>>

Ids == 1..MaxAssoc

(* ---------------------------- state ------------------------------------ *)

VARIABLES
    ipc,       \* ingress loop: "recv", "lookup", "associate", "send", "blocked", "exit"
    exit,      \* why `run` ended: "none", "recv_err", "associate_err", "unreachable"
    isrc,      \* src of the datagram being processed
    idst,      \* dst of the datagram being processed
    ipkt,      \* pkt (its payload bytes)
    iassoc,    \* the clone `assoc` held by the loop (0: none)
    waited,    \* time spent in the current time::timeout(timeout, recv_from)
    lock,      \* holder of assoc_map's Mutex: "free" or "ingress"
    cache,     \* assoc_map: key -> [assoc, age]; assoc = 0 means no entry
    nassoc,    \* associations created so far (ids 1..nassoc)
    asrc,      \* per association: src_addr captured by its tasks
    adst,      \* per association: dst_addr captured by its tasks
    queue,     \* per association: payloads in the mpsc channel
    epc,       \* egress task: "none", "recv", "relay", "done", "panicked"
    ecur,      \* egress task: pkt taken from the queue
    rpc,       \* reply task: "none", "recv", "send" (parked in local_udp.send_to),
               \*   "touch" (parked at the lock), "done"
    rout,      \* what the latest relay_r2l call handed to local_udp.send_to
    enq,       \* history: payloads the ingress loop enqueued, per association
    handled,   \* history: send_buf of each relay_l2r call, per association
    elogged,   \* history: the egress task has logged a failed relay_l2r
    npkts,     \* non-empty datagrams accepted so far
    quiet      \* no datagram arrives any more

vars == <<ipc, exit, isrc, idst, ipkt, iassoc, waited, lock, cache, nassoc,
          asrc, adst, queue, epc, ecur, rpc, rout, enq, handled,
          elogged, npkts, quiet>>

ingressVars == <<ipc, exit, isrc, idst, ipkt, iassoc, waited>>
egressVars == <<epc, ecur, handled, elogged>>
replyVars == <<rpc, rout>>
assocVars == <<nassoc, asrc, adst>>

NoEntry == [assoc |-> 0, age |-> 0]

NoAddr == <<0, 0>>

\* relay_r2l made no send_to call
NoSend == <<>>

(* ---------------------------- the cache -------------------------------- *)

\* An expiry test that is one tick early.
ExpiredEarly(e) == e.assoc # 0 /\ e.age >= Expiry

\* An entry is expired once its last touch is longer ago than the duration.
Expired(e) == e.assoc # 0 /\ e.age > Expiry

\* LruCache::remove_expired, the first thing get, get_mut, insert and iter do
remove_expired(c) == [k \in DOMAIN c |-> IF Expired(c[k]) THEN NoEntry ELSE c[k]]

\* LruCache::get: purge, then refresh the entry found (nothing on a miss)
get(c, k) ==
    LET p == remove_expired(c)
    IN  IF p[k].assoc # 0 THEN [p EXCEPT ![k].age = 0] ELSE p

\* An iterator that is run to its end: every entry it passes is refreshed.
iter_consumed(c) ==
    [k \in DOMAIN c |->
        IF Expired(c[k]) THEN NoEntry
        ELSE IF c[k].assoc # 0 THEN [c[k] EXCEPT !.age = 0] ELSE c[k]]

\* LruCache::iter, never advanced: purge only
iter(c) == remove_expired(c)

\* LruCache::contains_key: the key has an entry that has not expired
contains_key(c, k) == c[k].assoc # 0 /\ ~Expired(c[k])

\* A lookup that takes an expired entry for a hit and refreshes it.
entry_no_purge(c, k) == IF c[k].assoc # 0 THEN [c EXCEPT ![k].age = 0] ELSE c

\* LruCache::entry: Occupied when contains_key, and then get_mut purges the
\* map and refreshes the entry found; Vacant otherwise, and then the map is
\* left as it is (an expired entry of the key stays until the insert).
entry(c, k) == IF contains_key(c, k) THEN get(c, k) ELSE c

\* An insert that fills every key of the map.
insert_all(c, k, a) == [x \in DOMAIN c |-> [assoc |-> a, age |-> 0]]

\* VacantEntry::insert: LruCache::insert purges the map, then puts the
\* value under the key, in place of what the key held
insert(c, k, a) == [remove_expired(c) EXCEPT ![k] = [assoc |-> a, age |-> 0]]

(* ---------------------------- handles ---------------------------------- *)

InCache(a) == \E k \in Keys : cache[k].assoc = a

\* Clones of the UdpAssociation (tx and the Arc'd watcher) that are alive:
\* the one in the map and the one the ingress loop holds.
Holders(a) == (IF InCache(a) THEN 1 ELSE 0) + (IF iassoc = a THEN 1 ELSE 0)

\* rx has been dropped: the egress task ended
RxClosed(a) == epc[a] \in {"done", "panicked"}

\* the oneshot sender inside UdpAssociationWatcher has been dropped
WatcherFired(a) == Holders(a) = 0

\* The relay process is alive: `run` has neither returned nor panicked.
Running == exit = "none"

EgressRunning(a) == epc[a] \in {"recv", "relay"}
ReplyRunning(a) == rpc[a] \in {"recv", "send", "touch"}

(* ---------------------------- Init ------------------------------------- *)

Init ==
    /\ ipc = "recv"
    /\ exit = "none"
    /\ isrc = NoAddr
    /\ idst = NoAddr
    /\ ipkt = <<>>
    /\ iassoc = 0
    /\ waited = 0
    /\ lock = "free"
    /\ cache = [k \in Keys |-> NoEntry]
    /\ nassoc = 0
    /\ asrc = [a \in Ids |-> NoAddr]
    /\ adst = [a \in Ids |-> NoAddr]
    /\ queue = [a \in Ids |-> <<>>]
    /\ epc = [a \in Ids |-> "none"]
    /\ ecur = [a \in Ids |-> <<>>]
    /\ rpc = [a \in Ids |-> "none"]
    /\ rout = NoSend
    /\ enq = [a \in Ids |-> <<>>]
    /\ handled = [a \in Ids |-> <<>>]
    /\ elogged = [a \in Ids |-> FALSE]
    /\ npkts = 0
    /\ quiet = FALSE

(* ---------------------------- clock ------------------------------------ *)

\* One tick of the clock: entries age, the receive wait grows.  (Once
\* MaxAssoc associations exist the loop accepts only datagrams that hit, and
\* the hit is decided when the datagram arrives: no await lies between
\* recv_from and the lookup when the lock is free.)
Tick ==
    /\ Running
    /\ (ipc = "lookup" /\ nassoc >= MaxAssoc)
          => cache[cache_key(isrc, idst)].age < Expiry
    /\ cache' = [k \in Keys |->
                    IF cache[k].assoc # 0 /\ cache[k].age <= Expiry
                    THEN [cache[k] EXCEPT !.age = @ + 1]
                    ELSE cache[k]]
    /\ waited' = IF ipc = "recv" /\ waited < Expiry THEN waited + 1 ELSE waited
    /\ UNCHANGED <<ipc, exit, isrc, idst, ipkt, iassoc, lock, assocVars, queue,
                   egressVars, replyVars, enq, npkts, quiet>>

\* From here on the receiving socket stays silent.
Quiesce ==
    /\ ipc = "recv"
    /\ ~quiet
    /\ quiet' = TRUE
    /\ UNCHANGED <<ingressVars, lock, cache, assocVars, queue, egressVars,
                   replyVars, enq, npkts>>

(* ---------------------------- ingress loop ----------------------------- *)

\* A loop without the zero-length test.
SkipNever(pkt) == FALSE

\* `if recv_len == 0`
SkipDatagram(pkt) == Len(pkt) = 0

\* run, l.recv_from returns a datagram: a zero-length one is skipped
\* (`continue`), any other goes on to the association lookup.  The payloads
\* are numbered in the order of arrival, which makes every payload of a
\* run distinct; once MaxAssoc associations exist only datagrams that hit
\* are accepted.
IngressRecv(src, dst, pkt) ==
    /\ ipc = "recv"
    /\ ~quiet
    /\ IF SkipDatagram(pkt)
       THEN /\ waited' = 0
            /\ UNCHANGED <<ipc, isrc, idst, ipkt, npkts>>
       ELSE /\ npkts < Len(Burst)
            /\ Len(pkt) > 0 => pkt = <<npkts + 1>>
            /\ nassoc < MaxAssoc \/ contains_key(cache, cache_key(src, dst))
            /\ ipc' = "lookup"
            /\ isrc' = src
            /\ idst' = dst
            /\ ipkt' = pkt
            /\ npkts' = npkts + 1
            /\ waited' = 0
    /\ UNCHANGED <<exit, iassoc, lock, cache, assocVars, queue, egressVars,
                   replyVars, enq, quiet>>

\* run, l.recv_from returns an error: `r?` ends run
IngressRecvError ==
    /\ ipc = "recv"
    /\ ~quiet
    /\ ipc' = "exit"
    /\ exit' = "recv_err"
    /\ UNCHANGED <<isrc, idst, ipkt, iassoc, waited, lock, cache, assocVars,
                   queue, egressVars, replyVars, enq, npkts, quiet>>

\* run, time::timeout elapsed: lock the map, create the iterator, continue
IngressTimeout ==
    /\ ipc = "recv"
    /\ waited >= Expiry
    /\ lock = "free"
    /\ cache' = iter(cache)
    /\ waited' = 0
    /\ UNCHANGED <<ipc, exit, isrc, idst, ipkt, iassoc, lock, assocVars, queue,
                   egressVars, replyVars, enq, npkts, quiet>>

\* A lookup whose guard lives on after the block: the lock stays taken on
\* a hit.
IngressLookupKeepsLock ==
    /\ ipc = "lookup"
    /\ lock = "free"
    /\ LET k == cache_key(isrc, idst)
           c == entry(cache, k)
       IN  /\ cache' = c
           /\ lock' = "ingress"
           /\ IF contains_key(c, k)
              THEN /\ iassoc' = c[k].assoc
                   /\ ipc' = "send"
              ELSE /\ ipc' = "associate"
                   /\ UNCHANGED iassoc
    /\ UNCHANGED <<exit, isrc, idst, ipkt, waited, assocVars, queue, egressVars,
                   replyVars, enq, npkts, quiet>>

\* run, the lookup under the lock: Occupied clones the handle and releases
\* the lock, Vacant goes on to associate with the lock held.
IngressLookup ==
    /\ ipc = "lookup"
    /\ lock = "free"
    /\ LET k == cache_key(isrc, idst)
           c == entry(cache, k)
       IN  /\ cache' = c
           /\ IF contains_key(c, k)
              THEN /\ iassoc' = c[k].assoc
                   /\ ipc' = "send"
                   /\ UNCHANGED lock
              ELSE /\ lock' = "ingress"
                   /\ ipc' = "associate"
                   /\ UNCHANGED iassoc
    /\ UNCHANGED <<exit, isrc, idst, ipkt, waited, assocVars, queue, egressVars,
                   replyVars, enq, npkts, quiet>>

\* A factory that spawns the two tasks before it binds the reply socket: a
\* failed bind leaves them behind.
IngressAssociateSpawnsFirst(ok) ==
    /\ ipc = "associate"
    /\ lock = "ingress"
    /\ lock' = "free"
    /\ LET a == nassoc + 1
       IN  /\ nassoc' = a
           /\ asrc' = [asrc EXCEPT ![a] = isrc]
           /\ adst' = [adst EXCEPT ![a] = idst]
           /\ epc' = [epc EXCEPT ![a] = "recv"]
           /\ rpc' = [rpc EXCEPT ![a] = "recv"]
           /\ IF ok
              THEN /\ cache' = insert(cache, cache_key(isrc, idst), a)
                   /\ iassoc' = a
                   /\ ipc' = "send"
                   /\ UNCHANGED exit
              ELSE /\ ipc' = "exit"
                   /\ exit' = "associate_err"
                   /\ UNCHANGED <<cache, iassoc>>
    /\ UNCHANGED <<isrc, idst, ipkt, waited, queue, ecur, handled, elogged,
                   rout, enq, npkts, quiet>>

\* UdpAssociation::associate and vc.insert: the socket setup succeeds (both
\* tasks are spawned, the association is inserted and cloned, the lock is
\* released) or fails (`expect` panics).
IngressAssociate(ok) ==
    /\ ipc = "associate"
    /\ lock = "ingress"
    /\ lock' = "free"
    /\ IF ok
       THEN LET a == nassoc + 1
            IN  /\ nassoc' = a
                /\ asrc' = [asrc EXCEPT ![a] = isrc]
                /\ adst' = [adst EXCEPT ![a] = idst]
                /\ epc' = [epc EXCEPT ![a] = "recv"]
                /\ rpc' = [rpc EXCEPT ![a] = "recv"]
                /\ cache' = insert(cache, cache_key(isrc, idst), a)
                /\ iassoc' = a
                /\ ipc' = "send"
                /\ UNCHANGED exit
       ELSE /\ ipc' = "exit"
            /\ exit' = "associate_err"
            /\ UNCHANGED <<nassoc, asrc, adst, epc, rpc, cache, iassoc>>
    /\ UNCHANGED <<isrc, idst, ipkt, waited, queue, ecur, handled, elogged,
                   rout, enq, npkts, quiet>>

\* A variant that keeps the cloned handle after the send, until the next
\* lookup replaces it.
IngressSendKeepsHandle ==
    /\ ipc \in {"send", "blocked"}
    /\ IF RxClosed(iassoc)
       THEN /\ ipc' = "exit"
            /\ exit' = "unreachable"
            /\ UNCHANGED <<isrc, idst, ipkt, iassoc, waited, queue, enq>>
       ELSE IF Len(queue[iassoc]) < ChannelSize
       THEN /\ queue' = [queue EXCEPT ![iassoc] = Append(@, ipkt)]
            /\ enq' = [enq EXCEPT ![iassoc] = Append(@, ipkt)]
            /\ isrc' = NoAddr
            /\ idst' = NoAddr
            /\ ipkt' = <<>>
            /\ waited' = 0
            /\ ipc' = "recv"
            /\ UNCHANGED <<exit, iassoc>>
       ELSE /\ ipc = "send"
            /\ ipc' = "blocked"
            /\ UNCHANGED <<exit, isrc, idst, ipkt, iassoc, waited, queue, enq>>
    /\ UNCHANGED <<lock, cache, assocVars, egressVars, replyVars, npkts, quiet>>

\* UdpAssociation::send: tx.send(pkt).await completes when the queue has a
\* free slot, and otherwise parks the loop until one is freed; an error (the
\* receiver is gone) reaches unreachable!.  After the send the loop drops
\* its clone and the payload and calls recv_from again.
IngressSend ==
    /\ ipc \in {"send", "blocked"}
    /\ IF RxClosed(iassoc)
       THEN /\ ipc' = "exit"
            /\ exit' = "unreachable"
            /\ UNCHANGED <<isrc, idst, ipkt, iassoc, waited, queue, enq>>
       ELSE IF Len(queue[iassoc]) < ChannelSize
       THEN /\ queue' = [queue EXCEPT ![iassoc] = Append(@, ipkt)]
            /\ enq' = [enq EXCEPT ![iassoc] = Append(@, ipkt)]
            /\ iassoc' = 0
            /\ isrc' = NoAddr
            /\ idst' = NoAddr
            /\ ipkt' = <<>>
            /\ waited' = 0
            /\ ipc' = "recv"
            /\ UNCHANGED exit
       ELSE /\ ipc = "send"
            /\ ipc' = "blocked"
            /\ UNCHANGED <<exit, isrc, idst, ipkt, iassoc, waited, queue, enq>>
    /\ UNCHANGED <<lock, cache, assocVars, egressVars, replyVars, npkts, quiet>>

(* ---------------------------- egress task ------------------------------ *)

\* Results of one relay_l2r call.  "short" is a send that reports fewer
\* bytes than the ciphertext holds: assert_eq! panics.
L2rErrors == {"encrypt_err", "send_err", "timeout"}

L2rResults == {"ok", "short"} \cup L2rErrors

\* A frame with the payload in front of the address.
FramePayloadFirst(dst, payload) == payload \o write_to_buf(dst)

\* send_buf of relay_l2r: ADDRESS + PAYLOAD
Frame(dst, payload) == write_to_buf(dst) \o payload

\* A consumer that takes the payload enqueued last.
EgressRecvLast(a) ==
    /\ Running
    /\ epc[a] = "recv"
    /\ queue[a] # <<>>
    /\ ecur' = [ecur EXCEPT ![a] = queue[a][Len(queue[a])]]
    /\ queue' = [queue EXCEPT ![a] = SubSeq(@, 1, Len(@) - 1)]
    /\ epc' = [epc EXCEPT ![a] = "relay"]
    /\ UNCHANGED <<ingressVars, lock, cache, assocVars, handled, elogged,
                   replyVars, enq, npkts, quiet>>

\* `while let Some(pkt) = rx.recv().await`: the payload at the head of the
\* queue is taken off it
EgressRecv(a) ==
    /\ Running
    /\ epc[a] = "recv"
    /\ queue[a] # <<>>
    /\ ecur' = [ecur EXCEPT ![a] = Head(queue[a])]
    /\ queue' = [queue EXCEPT ![a] = Tail(@)]
    /\ epc' = [epc EXCEPT ![a] = "relay"]
    /\ UNCHANGED <<ingressVars, lock, cache, assocVars, handled, elogged,
                   replyVars, enq, npkts, quiet>>

\* rx.recv() returns None: the queue is empty and every sender is dropped
EgressClosed(a) ==
    /\ Running
    /\ epc[a] = "recv"
    /\ queue[a] = <<>>
    /\ Holders(a) = 0
    /\ epc' = [epc EXCEPT ![a] = "done"]
    /\ UNCHANGED <<ingressVars, lock, cache, assocVars, queue, ecur, handled,
                   elogged, replyVars, enq, npkts, quiet>>

\* An egress loop that breaks on the first Err.
AfterL2rBreak(res) == IF res = "ok" THEN "recv" ELSE "panicked"

\* Where the task goes after relay_l2r: an Err is logged and the loop goes
\* on, the failed assert_eq! unwinds the task (rx and its payloads are
\* dropped).
AfterL2r(res) == IF res = "short" THEN "panicked" ELSE "recv"

\* relay_l2r on the payload taken, and the `if let Err` after it
EgressRelay(a, res) ==
    /\ Running
    /\ epc[a] = "relay"
    /\ handled' = [handled EXCEPT ![a] = Append(@, Frame(adst[a], ecur[a]))]
    /\ elogged' = [elogged EXCEPT ![a] = @ \/ res \in L2rErrors]
    /\ epc' = [epc EXCEPT ![a] = AfterL2r(res)]
    /\ queue' = [queue EXCEPT ![a] = IF AfterL2r(res) = "panicked" THEN <<>> ELSE @]
    /\ ecur' = [ecur EXCEPT ![a] = <<>>]
    /\ UNCHANGED <<ingressVars, lock, cache, assocVars, replyVars, enq, npkts,
                   quiet>>

(* ---------------------------- reply task ------------------------------- *)

R2lErrors == {"recv_err", "decrypt_err", "too_short", "bad_addr", "send_err"}
R2lResults == {"ok"} \cup R2lErrors

IvByte == 5
TagOk == 6
TagBad == 7
AtypUnknown == 9

\* encrypt_payload: the IV, the ciphertext, the authentication tag
encrypt_payload(plain) == <<IvByte>> \o plain \o <<TagOk>>

\* decrypt_payload: Ok(None) when the packet is too short to hold IV and
\* tag, Err when the tag does not verify, else Ok(Some(plaintext))
decrypt_payload(d) ==
    IF Len(d) < 2 THEN [kind |-> "none", buf |-> <<>>]
    ELSE IF d[Len(d)] # TagOk THEN [kind |-> "err", buf |-> <<>>]
    ELSE [kind |-> "some", buf |-> SubSeq(d, 2, Len(d) - 1)]

\* A parser that leaves the cursor at the start of the buffer.
read_from_no_advance(buf) ==
    IF Len(buf) >= Len(write_to_buf(NoAddr)) /\ buf[1] = AtypIpv4
    THEN [ok |-> TRUE, rest |-> buf]
    ELSE [ok |-> FALSE, rest |-> <<>>]

\* Address::read_from on a cursor: the type byte, then the address and the
\* port; the cursor is left behind them.  An unknown type or a buffer that
\* ends early is an error.
read_from(buf) ==
    IF Len(buf) >= Len(write_to_buf(NoAddr)) /\ buf[1] = AtypIpv4
    THEN [ok |-> TRUE, rest |-> SubSeq(buf, Len(write_to_buf(NoAddr)) + 1, Len(buf))]
    ELSE [ok |-> FALSE, rest |-> <<>>]

\* What the remote socket can deliver to one relay_r2l call: recv_from
\* fails, or returns a datagram; and what local_udp.send_to will answer: it
\* completes at once with Ok or Err, or it is pending (the socket is not
\* writable) and the task is parked inside relay_r2l.
ReplyPayloads == {<<>>, <<7>>}

\* the address field the server puts in front of a reply
ReplyAddrs == {<<30, 53>>}

ReplyPlain ==
    {write_to_buf(d) \o p : d \in ReplyAddrs, p \in ReplyPayloads}
        \cup {<<AtypIpv4, 30>>, <<AtypUnknown, 30, 0, 53, 7>>}

ReplyDatagrams ==
    {<<IvByte>>}
        \cup {encrypt_payload(pl) : pl \in ReplyPlain}
        \cup {<<IvByte>> \o write_to_buf(d) \o <<7, TagBad>> : d \in ReplyAddrs}

ReplyInputs ==
    [recv : {"ok"}, bytes : ReplyDatagrams, send : {"ok"}]
        \cup [recv : {"ok"},
              bytes : {encrypt_payload(write_to_buf(d) \o <<7>>) : d \in ReplyAddrs},
              send : {"err", "pending"}]
        \cup {[recv |-> "err", bytes |-> <<>>, send |-> "ok"]}

\* relay_r2l is parked in local_udp.send_to(..).await
Pending == "pending"

\* the result of relay_r2l once send_to has completed
SendResult(sres) == IF sres = "ok" THEN "ok" ELSE "send_err"

\* relay_r2l up to the first poll of send_to: its result (Pending when the
\* send has not completed) and the payload it handed to send_to, if any
relay_r2l(in) ==
    IF in.recv # "ok" THEN [res |-> "recv_err", out |-> NoSend]
    ELSE LET d == decrypt_payload(in.bytes)
         IN  IF d.kind = "err" THEN [res |-> "decrypt_err", out |-> NoSend]
             ELSE IF d.kind = "none" THEN [res |-> "too_short", out |-> NoSend]
             ELSE LET r == read_from(d.buf)
                  IN  IF ~r.ok THEN [res |-> "bad_addr", out |-> NoSend]
                      ELSE [res |-> IF in.send = "pending"
                                    THEN Pending
                                    ELSE SendResult(in.send),
                            out |-> <<r.rest>>]

\* A transfer loop that breaks on an Err.
AfterR2lBreak(res) == IF res = "ok" THEN "touch" ELSE "done"

\* Where the task goes after relay_r2l: an Err is logged, the `break` is
\* commented out, and in both cases the task goes on to touch its key.
AfterR2l(res) == "touch"

\* The transfer loop from the return of recv_from to its next suspension:
\* relay_r2l decrypts, parses and calls send_to.  If the send is pending the
\* task parks inside relay_r2l, the touch still to come.  Otherwise
\* relay_r2l has returned and the task locks the map and touches its key:
\* with the lock free lock().await completes at once and the task is
\* receiving again, with the lock taken it parks at the lock.
ReplyRelay(a, in) ==
    /\ Running
    /\ rpc[a] = "recv"
    /\ LET r == relay_r2l(in)
           k == cache_key(asrc[a], adst[a])
       IN  /\ r.res \in R2lResults \cup {Pending}
           /\ rout' = IF r.out = NoSend
                      THEN NoSend
                      ELSE <<[to |-> asrc[a], bytes |-> r.out[1]]>>
           /\ IF r.res = Pending
              THEN /\ rpc' = [rpc EXCEPT ![a] = "send"]
                   /\ UNCHANGED cache
              ELSE IF AfterR2l(r.res) = "touch" /\ lock = "free"
              THEN /\ cache' = get(cache, k)
                   /\ UNCHANGED rpc
              ELSE /\ rpc' = [rpc EXCEPT ![a] = AfterR2l(r.res)]
                   /\ UNCHANGED cache
    /\ UNCHANGED <<ingressVars, lock, assocVars, queue, egressVars, enq, npkts,
                   quiet>>

\* The pending local_udp.send_to completes, relay_r2l returns Ok or Err, and
\* the task goes on to the touch as after any other return of relay_r2l.
ReplySendDone(a, sres) ==
    /\ Running
    /\ rpc[a] = "send"
    /\ sres \in {"ok", "err"}
    /\ IF AfterR2l(SendResult(sres)) = "touch" /\ lock = "free"
       THEN /\ cache' = get(cache, cache_key(asrc[a], adst[a]))
            /\ rpc' = [rpc EXCEPT ![a] = "recv"]
       ELSE /\ rpc' = [rpc EXCEPT ![a] = AfterR2l(SendResult(sres))]
            /\ UNCHANGED cache
    /\ UNCHANGED <<ingressVars, lock, assocVars, queue, egressVars, rout, enq,
                   npkts, quiet>>

\* The parked task gets the lock: amap.get(&cache_key), the guard is dropped
ReplyTouch(a) ==
    /\ Running
    /\ rpc[a] = "touch"
    /\ lock = "free"
    /\ cache' = get(cache, cache_key(asrc[a], adst[a]))
    /\ rpc' = [rpc EXCEPT ![a] = "recv"]
    /\ UNCHANGED <<ingressVars, lock, assocVars, queue, egressVars, rout, enq,
                   npkts, quiet>>

\* future::select: watcher_rx resolves once the sender is dropped, and the
\* transfer loop is dropped wherever it is parked (in recv_from, in send_to
\* or at the lock).  select polls the transfer loop first, so a reply that
\* is already there is still relayed (ReplyRelay stays enabled) before the
\* task finishes.
ReplyShutdown(a) ==
    /\ Running
    /\ ReplyRunning(a)
    /\ WatcherFired(a)
    /\ rpc' = [rpc EXCEPT ![a] = "done"]
    /\ UNCHANGED <<ingressVars, lock, cache, assocVars, queue, egressVars, rout,
                   enq, npkts, quiet>>

(* ---------------------------- specification ---------------------------- *)

Next ==
    \/ Tick
    \/ Quiesce
    \/ \E src \in Srcs, dst \in Dsts, pkt \in Payloads : IngressRecv(src, dst, pkt)
    \/ IngressRecvError
    \/ IngressTimeout
    \/ IngressLookup
    \/ \E ok \in BOOLEAN : IngressAssociate(ok)
    \/ IngressSend
    \/ \E a \in Ids : EgressRecv(a)
    \/ \E a \in Ids : EgressClosed(a)
    \/ \E a \in Ids, res \in L2rResults : EgressRelay(a, res)
    \/ \E a \in Ids, in \in ReplyInputs : ReplyRelay(a, in)
    \/ \E a \in Ids, sres \in {"ok", "err"} : ReplySendDone(a, sres)
    \/ \E a \in Ids : ReplyTouch(a)
    \/ \E a \in Ids : ReplyShutdown(a)

Spec == Init /\ [][Next]_vars

\* The scheduler runs every task that can take a step, and time passes.
FairSpec ==
    /\ Spec
    /\ WF_vars(Tick)
    /\ WF_vars(IngressTimeout)
    /\ WF_vars(IngressLookup)
    /\ WF_vars(\E ok \in BOOLEAN : IngressAssociate(ok))
    /\ WF_vars(IngressSend)
    /\ \A a \in Ids : WF_vars(EgressRecv(a))
    /\ \A a \in Ids : WF_vars(EgressClosed(a))
    /\ \A a \in Ids : WF_vars(\E res \in L2rResults : EgressRelay(a, res))
    /\ \A a \in Ids : WF_vars(ReplyTouch(a))
    /\ \A a \in Ids : WF_vars(ReplyShutdown(a))

\* The relay under the burst of traffic: the non-empty datagrams are those
\* of Burst, numbered in the order of arrival; when each arrives, what the
\* remote side sends and how the tasks are scheduled is as free as in Next.
\* Empty datagrams can arrive at any time, before and after the burst.
BurstNext ==
    \/ Tick
    \/ \E src \in Srcs, dst \in Dsts : IngressRecv(src, dst, <<>>)
    \/ \E src \in Srcs, i \in 1..Len(Burst) : IngressRecv(src, Burst[i], <<i>>)
    \/ IngressRecvError
    \/ IngressTimeout
    \/ IngressLookup
    \/ \E ok \in BOOLEAN : IngressAssociate(ok)
    \/ IngressSend
    \/ \E a \in Ids : EgressRecv(a)
    \/ \E a \in Ids : EgressClosed(a)
    \/ \E a \in Ids, res \in L2rResults : EgressRelay(a, res)
    \/ \E a \in Ids, in \in ReplyInputs : ReplyRelay(a, in)
    \/ \E a \in Ids, sres \in {"ok", "err"} : ReplySendDone(a, sres)
    \/ \E a \in Ids : ReplyTouch(a)
    \/ \E a \in Ids : ReplyShutdown(a)

BurstSpec ==
    /\ Init /\ [][BurstNext]_vars
    /\ WF_vars(Tick)
    /\ WF_vars(IngressTimeout)
    /\ WF_vars(IngressLookup)
    /\ WF_vars(\E ok \in BOOLEAN : IngressAssociate(ok))
    /\ WF_vars(IngressSend)
    /\ \A a \in Ids : WF_vars(EgressRecv(a))
    /\ \A a \in Ids : WF_vars(EgressClosed(a))
    /\ \A a \in Ids : WF_vars(\E res \in L2rResults : EgressRelay(a, res))
    /\ \A a \in Ids : WF_vars(ReplyTouch(a))
    /\ \A a \in Ids : WF_vars(ReplyShutdown(a))

(* ---------------------------- properties ------------------------------- *)

Created == 1..nassoc

\* the flow an association was created for
SameFlow(a, src, dst) == asrc[a] = src /\ adst[a] = dst

\* An entry that is present and whose last touch lies within the duration
Fresh(e) == e.assoc # 0 /\ e.age <= Expiry

\* C1 (flow identity): a non-empty datagram whose key has an entry that has
\* not expired hits that entry: the factory is not invoked, no task is
\* spawned, and the payload goes onto the queue of the association that was
\* created for exactly this (source, destination) pair.
C1_FlowIdentity ==
    [][/\ (ipc = "lookup" /\ ipc' # "lookup" /\ Fresh(cache[cache_key(isrc, idst)]))
          => /\ ipc' = "send"
             /\ iassoc' = cache[cache_key(isrc, idst)].assoc
             /\ nassoc' = nassoc
             /\ epc' = epc
             /\ rpc' = rpc
       /\ (ipc = "send" /\ ipc' = "recv")
          => /\ SameFlow(iassoc, isrc, idst)
             /\ enq' = [enq EXCEPT ![iassoc] = Append(@, ipkt)]
             /\ nassoc' = nassoc]_vars

\* Two datagrams of one flow went through one association.
C1_Witness == \E a \in Created : Len(enq[a]) >= 2 /\ nassoc = 1

TasksRunning(a) == EgressRunning(a) \/ ReplyRunning(a)

\* C2 as claimed (uniqueness): relay tasks of two different associations
\* created for the same key are never running at the same time.
C2_Uniqueness ==
    \A a, b \in Created :
        (a # b /\ SameFlow(a, asrc[b], adst[b]))
            => ~(TasksRunning(a) /\ TasksRunning(b))

\* C2 as amended: an entry holds an association of its own key; an
\* association is created for a key only when the key has no entry or an
\* expired one, and the ingress loop holds no handle of an older
\* association of the key; the insert that follows the creation puts the
\* new association in the place of the expired entry, so that from then on
\* no older association of the key has a sender handle left and only tasks
\* that are winding down overlap with the tasks of the new association.
C2_UniquenessAmended ==
    /\ [](\A k \in Keys : cache[k].assoc # 0 =>
             /\ cache[k].assoc \in Created
             /\ cache_key(asrc[cache[k].assoc], adst[cache[k].assoc]) = k)
    /\ [](\A a, b \in Created :
             (a < b /\ SameFlow(a, asrc[b], adst[b])) => Holders(a) = 0)
    /\ [][nassoc' # nassoc =>
             /\ nassoc' = nassoc + 1
             /\ ~contains_key(cache, cache_key(asrc'[nassoc'], adst'[nassoc']))
             /\ cache'[cache_key(asrc'[nassoc'], adst'[nassoc'])].assoc = nassoc'
             /\ \A a \in Created :
                   SameFlow(a, asrc'[nassoc'], adst'[nassoc'])
                      => /\ iassoc # a
                         /\ \A k \in Keys : cache'[k].assoc # a]_vars

\* A key was evicted and created again while the old tasks were running.
C2_Witness ==
    \E a, b \in Created :
        /\ a < b
        /\ SameFlow(a, asrc[b], adst[b])
        /\ TasksRunning(a)
        /\ TasksRunning(b)
        /\ InCache(b)

\* C3 (eviction): once no datagram arrives any more, an entry that has
\* expired is eventually removed by the timeout branch of the ingress loop;
\* and a non-empty datagram whose key has no entry, or an expired one,
\* invokes the factory, which on success inserts a new association.
C3_Eviction ==
    /\ \A k \in Keys : (quiet /\ Expired(cache[k])) ~> (cache[k].assoc = 0)
    /\ [][/\ (/\ ipc = "lookup"
              /\ ipc' # "lookup"
              /\ ~Fresh(cache[cache_key(isrc, idst)]))
             => (ipc' = "associate" /\ ~contains_key(cache', cache_key(isrc, idst)))
          /\ (ipc = "associate" /\ ipc' = "send")
             => /\ nassoc' = nassoc + 1
                /\ cache'[cache_key(isrc, idst)] = [assoc |-> nassoc', age |-> 0]
                /\ iassoc' = nassoc'
                /\ epc'[nassoc'] = "recv"
                /\ rpc'[nassoc'] = "recv"]_vars

\* A flow was created, evicted and created again, and the second entry was
\* removed after the datagrams stopped.
C3_Witness ==
    /\ quiet
    /\ \E a, b \in Created : a < b /\ SameFlow(a, asrc[b], adst[b])
    /\ \A k \in Keys : cache[k].assoc = 0

\* C4 (removal only by expiry): no step removes or replaces an entry whose
\* last touch lies within the expiry duration.
C4_RemovedOnlyByExpiry ==
    [][\A k \in Keys :
          Fresh(cache[k]) => cache'[k].assoc = cache[k].assoc]_vars

\* An association was evicted while another entry stayed.
C4_Witness ==
    \E a, b \in Created : ~InCache(a) /\ InCache(b) /\ Holders(a) = 0

\* C5 as claimed: every entry of the map belongs to an association whose
\* egress task and reply task are both still running.
C5_EntryTasksRunning ==
    \A k \in Keys :
        cache[k].assoc # 0 =>
            (EgressRunning(cache[k].assoc) /\ ReplyRunning(cache[k].assoc))

\* C6 (zero-length datagram): receiving one changes nothing but the loop's
\* own receive wait: no factory call, no change of the map or of its lock,
\* nothing enqueued, no task touched, and the loop is receiving again.
C6_ZeroLengthIgnored ==
    [][\A src \in Srcs, dst \in Dsts :
          IngressRecv(src, dst, <<>>)
              => /\ ipc' = "recv"
                 /\ UNCHANGED <<exit, isrc, idst, ipkt, iassoc, lock, cache,
                                assocVars, queue, egressVars, replyVars, enq,
                                npkts>>]_vars

\* A zero-length datagram can arrive while a flow is live and its entry has
\* aged (a refresh would show).
C6_Witness ==
    /\ ipc = "recv"
    /\ ~quiet
    /\ \E k \in Keys : cache[k].assoc # 0 /\ cache[k].age > 0
    /\ \E a \in Created : queue[a] # <<>>

\* payloads of the relay_l2r calls made so far
HandledPayloads(a) == [i \in 1..Len(handled[a]) |-> enq[a][i]]

\* the payload the egress task holds between rx.recv and relay_l2r
InHand(a) == IF epc[a] = "relay" THEN <<ecur[a]>> ELSE <<>>

\* C7 (order preservation): the i-th relay_l2r call of an association builds
\* the frame encode(dst) || p_i for the i-th payload the ingress loop
\* enqueued on it, whatever the results of the earlier calls were; and what
\* is still queued is the rest of the enqueued payloads, in order.
C7_OrderPreserved ==
    \A a \in Created :
        /\ Len(handled[a]) <= Len(enq[a])
        /\ \A i \in 1..Len(handled[a]) :
              handled[a][i] = write_to_buf(adst[a]) \o enq[a][i]
        /\ epc[a] # "panicked"
              => enq[a] = HandledPayloads(a) \o InHand(a) \o queue[a]

\* Three payloads of one flow: the send of the first failed while the other
\* two were waiting in the queue, and all three were handed over.
C7_Witness ==
    \E a \in Created :
        /\ Len(enq[a]) = 3
        /\ Len(handled[a]) = 3
        /\ elogged[a]
        /\ epc[a] = "recv"
        /\ \E b \in Created : b # a /\ enq[b] # <<>>

\* the ingress loop is parked in tx.send on a full queue
Blocked == ipc = "blocked"

\* what a queue may become when its consumer takes at most one payload
HeadTaken(q) == {q} \cup (IF q # <<>> THEN {Tail(q)} ELSE {})

\* C8 as claimed (backpressure): a loop parked on a full queue stays parked,
\* and the queue loses nothing but its head to the egress task, until a slot
\* is free; then the parked payload is put at the end of the queue and the
\* loop receives again; and a parked loop is eventually receiving again.
C8_Backpressure ==
    /\ [][Blocked =>
             \/ /\ ipc' = "blocked"
                /\ enq' = enq
                /\ queue'[iassoc] \in HeadTaken(queue[iassoc])
             \/ /\ ipc' = "recv"
                /\ Len(queue[iassoc]) < ChannelSize
                /\ queue'[iassoc] = Append(queue[iassoc], ipkt)
                /\ enq'[iassoc] = Append(enq[iassoc], ipkt)]_vars
    /\ Blocked ~> (ipc = "recv")

\* C9 as claimed (error isolation): no error inside a relay task ends the
\* ingress loop: `run` never stops because an egress queue was closed.
C9_ErrorIsolation == exit # "unreachable"

\* C10 (transient errors): an Err of relay_l2r sends the egress task back to
\* rx.recv and leaves the map alone; an Err of relay_r2l, returned at once
\* or when a pending send fails, leaves the reply task running, on its way
\* through the touch to the next receive, and the flow's entry, when its
\* last touch lies within the duration, is not removed.
C10_TransientErrors ==
    [][/\ \A a \in Ids, res \in L2rErrors :
             EgressRelay(a, res) => (epc'[a] = "recv" /\ cache' = cache)
       /\ \A a \in Ids, in \in ReplyInputs :
             (/\ rpc[a] = "recv" /\ ipc' = ipc /\ epc' = epc
              /\ relay_r2l(in).res \in R2lErrors
              /\ ReplyRelay(a, in))
                 => /\ rpc'[a] \in {"recv", "touch"}
                    /\ rpc'[a] = "touch" => (lock = "ingress" /\ cache' = cache)
                    /\ \A k \in Keys :
                          Fresh(cache[k]) => cache'[k].assoc = cache[k].assoc
       /\ \A a \in Ids :
             ReplySendDone(a, "err")
                 => /\ rpc'[a] \in {"recv", "touch"}
                    /\ rpc'[a] = "touch" => (lock = "ingress" /\ cache' = cache)
                    /\ \A k \in Keys :
                          Fresh(cache[k]) => cache'[k].assoc = cache[k].assoc
       /\ \A a \in Ids :
             (rpc[a] \in {"send", "touch"} /\ rpc'[a] # rpc[a])
                 => \/ rpc'[a] = "recv"
                    \/ (rpc[a] = "send" /\ rpc'[a] = "touch")
                    \/ (rpc'[a] = "done" /\ WatcherFired(a))]_vars

\* After a failed relay_l2r was logged the task has taken the next payload,
\* and the flow's entry is in the map.
C10_Witness ==
    \E a \in Created :
        /\ elogged[a]
        /\ Len(handled[a]) = 1
        /\ epc[a] = "relay"
        /\ InCache(a)

\* C11 (reply stripping): a reply that decrypts to ADDRESS || P makes the
\* reply task hand exactly P, addressed to the source of its flow, to
\* send_to; a reply that cannot be received or decrypted, that decrypts to
\* nothing, or whose address does not parse makes it send nothing.
C11_ReplyStripping ==
    [][\A a \in Ids, in \in ReplyInputs :
          (rpc[a] = "recv" /\ ipc' = ipc /\ epc' = epc /\ ReplyRelay(a, in)) =>
              /\ \A d \in ReplyAddrs, p \in ReplyPayloads :
                    (in.recv = "ok" /\ in.bytes = encrypt_payload(write_to_buf(d) \o p))
                        => rout' = <<[to |-> asrc[a], bytes |-> p]>>
              /\ (\/ in.recv # "ok"
                  \/ decrypt_payload(in.bytes).kind # "some"
                  \/ ~read_from(decrypt_payload(in.bytes).buf).ok)
                     => rout' = NoSend]_vars

\* A non-empty reply payload went back to the source of a running flow.
C11_Witness ==
    \E a \in Created :
        /\ rout = <<[to |-> asrc[a], bytes |-> <<7>>]>>
        /\ rpc[a] = "recv"
        /\ InCache(a)

\* the map has dropped the entry of an association it once held
Evicted(a) == a \in Created /\ ~InCache(a)

\* C12 (reply task and eviction): once the entry of a flow has been evicted
\* its reply task eventually ends (as long as the relay itself runs); the
\* shutdown signal is never fired, and the reply task never ended, while
\* the map, or the ingress loop, still holds the association.
C12_ReplyExitsOnEviction ==
    /\ \A a \in Ids : Evicted(a) ~> (rpc[a] = "done" \/ ~Running)
    /\ [](\A a \in Created :
             (WatcherFired(a) \/ rpc[a] = "done") => (~InCache(a) /\ iassoc # a))
    /\ [][\A a \in Ids :
             (rpc[a] # "done" /\ rpc'[a] = "done") => (Evicted(a) /\ WatcherFired(a))]_vars

\* The reply task of an evicted flow has ended while another flow is cached
\* and its reply task runs.
C12_Witness ==
    \E a, b \in Created :
        /\ Evicted(a)
        /\ rpc[a] = "done"
        /\ InCache(b)
        /\ ReplyRunning(b)

\* C13 as claimed (egress termination): the egress task has ended only if
\* every sender handle of its queue is dropped and it has handed every
\* enqueued payload to relay_l2r; and once every sender handle is dropped
\* the task eventually ends (as long as the relay itself runs).
C13_EgressTermination ==
    /\ [](\A a \in Created :
             RxClosed(a) => /\ Holders(a) = 0
                            /\ Len(handled[a]) = Len(enq[a]))
    /\ \A a \in Ids :
          (a \in Created /\ Holders(a) = 0) ~> (epc[a] = "done" \/ ~Running)

\* the ingress loop is at a suspension point on a socket or on a queue:
\* recv_from, the socket setup inside associate, tx.send
IngressAtIO == ipc \in {"recv", "associate", "send", "blocked"}

\* C14 as claimed (lock excludes I/O): the map's lock is never held while
\* its holder creates or binds a socket, sends or receives on one, or waits
\* on an egress queue.
C14_LockExcludesIO == lock = "ingress" => ~IngressAtIO

\* the entry e, just touched
Touched(e) == [e EXCEPT !.age = 0]

\* a step of the reply task of a in which it touches its key: relay_r2l has
\* returned (at once, or when the pending send completed) with the lock
\* free, or the task, parked at the lock, gets it
ReplyTouches(a) ==
    \/ ReplyTouch(a)
    \/ \E sres \in {"ok", "err"} : (rpc'[a] = "recv" /\ ReplySendDone(a, sres))
    \/ /\ rpc[a] = "recv"
       /\ rpc'[a] = "recv"
       /\ lock = "free"
       /\ ipc' = ipc
       /\ epc' = epc
       /\ \E in \in ReplyInputs : ReplyRelay(a, in)

\* C15 as claimed (lookups refresh): an ingress hit, a reply-task touch and
\* the scan on receive timeout each reset the recency of the entries, not
\* yet expired, that they look up or scan.
C15_LookupRefreshes ==
    [][/\ IngressLookup
             => (Fresh(cache[cache_key(isrc, idst)])
                    => cache'[cache_key(isrc, idst)]
                           = Touched(cache[cache_key(isrc, idst)]))
       /\ \A a \in Ids :
             ReplyTouches(a)
                 => (Fresh(cache[cache_key(asrc[a], adst[a])])
                        => cache'[cache_key(asrc[a], adst[a])]
                               = Touched(cache[cache_key(asrc[a], adst[a])]))
       /\ IngressTimeout
             => \A k \in Keys : Fresh(cache[k]) => cache'[k] = Touched(cache[k])]_vars

\* C15 as amended: an ingress hit and a reply-task touch reset the recency
\* of the entry they find; the scan on receive timeout creates the iterator
\* and never advances it, so the entries it leaves in the map keep their
\* recency.
C15_LookupRefreshesAmended ==
    [][/\ IngressLookup
             => (Fresh(cache[cache_key(isrc, idst)])
                    => /\ cache'[cache_key(isrc, idst)]
                             = Touched(cache[cache_key(isrc, idst)])
                       /\ ipc' = "send")
       /\ \A a \in Ids :
             ReplyTouches(a)
                 => (Fresh(cache[cache_key(asrc[a], adst[a])])
                        => cache'[cache_key(asrc[a], adst[a])]
                               = Touched(cache[cache_key(asrc[a], adst[a])]))
       /\ IngressTimeout
             => \A k \in Keys : Fresh(cache[k]) => cache'[k] = cache[k]]_vars

\* The socket is silent, the loop has just started a new receive wait, and
\* an entry that has aged, but not expired, is in the map with its age.
C15_Witness ==
    /\ quiet
    /\ ipc = "recv"
    /\ waited = 0
    /\ \E k \in Keys : Fresh(cache[k]) /\ cache[k].age = Expiry

\* the reply task of a has a reply in hand: relay_r2l has received it and
\* the touch of this iteration is still to come
ReplyInHand(a) == rpc[a] \in {"send", "touch"}

\* C16 as claimed (touch after every iteration): from its receive the reply
\* task goes back to receiving only through the touch of its key, whether
\* relay_r2l returned Ok or Err; and every reply received while the flow's
\* entry has not expired refreshes that entry: the entry does not expire,
\* and is not removed, between the arrival of the reply and the touch.
C16_ReplyTouchEveryIteration ==
    [][\A a \in Ids :
          /\ (ReplyInHand(a) /\ rpc'[a] = "recv")
                => /\ lock = "free"
                   /\ cache' = get(cache, cache_key(asrc[a], adst[a]))
          /\ (/\ rpc[a] = "recv" /\ ipc' = ipc /\ epc' = epc
              /\ \E in \in ReplyInputs : ReplyRelay(a, in))
                => \/ ReplyInHand(a)'
                   \/ /\ lock = "free"
                      /\ cache' = get(cache, cache_key(asrc[a], adst[a]))
          /\ (/\ ReplyInHand(a)
              /\ cache[cache_key(asrc[a], adst[a])].assoc = a
              /\ Fresh(cache[cache_key(asrc[a], adst[a])]))
                => /\ cache'[cache_key(asrc[a], adst[a])].assoc = a
                   /\ Fresh(cache'[cache_key(asrc[a], adst[a])])]_vars

\* C17 (creation failure is fatal): a failed factory call spawns no task,
\* inserts no entry and enqueues nothing, and ends the ingress loop with the
\* lock released; after the relay has stopped nothing changes any more, and
\* the datagram that caused the call is in no queue and its key in no entry.
C17_AssociateFailureFatal ==
    /\ [][(ipc = "associate" /\ ipc' \notin {"associate", "send"})
             => /\ ipc' = "exit"
                /\ exit' = "associate_err"
                /\ lock' = "free"
                /\ UNCHANGED <<nassoc, asrc, adst, epc, rpc, cache, queue, enq>>]_vars
    /\ [][exit # "none" => UNCHANGED vars]_vars
    /\ [](exit = "associate_err"
             => /\ ipc = "exit"
                /\ iassoc = 0
                /\ ~contains_key(cache, cache_key(isrc, idst))
                /\ \A a \in Created : \A i \in 1..Len(enq[a]) : enq[a][i] # ipkt)

\* The factory failed for the second flow while the first flow was cached
\* and had a payload queued.
C17_Witness ==
    /\ exit = "associate_err"
    /\ \E a \in Created : InCache(a) /\ queue[a] # <<>> /\ ~SameFlow(a, isrc, idst)

\* C18 as claimed (the queue is open on every enqueue): whenever the ingress
\* loop is about to enqueue, or is parked in the enqueue, the receiving end
\* of that queue is open, and unreachable! is never reached.
C18_QueueOpenOnSend ==
    /\ ipc \in {"send", "blocked"} => ~RxClosed(iassoc)
    /\ ipc = "exit" => exit \in {"recv_err", "associate_err"}

\* C19 as claimed (no deadlock between lock and queues): the ingress loop
\* never holds the lock while it enqueues or is parked on a full queue; the
\* holder of the lock is the ingress loop inside the factory call, which
\* can always go on, whatever the relay tasks do; and a reply task parked
\* at the lock eventually acquires it and touches its key: it leaves the
\* wait in no other way, and it does leave it.
C19_NoLockQueueDeadlock ==
    /\ [](ipc \in {"send", "blocked"} => lock = "free")
    /\ [](lock = "ingress"
             => (ipc = "associate" /\ ENABLED (\E ok \in BOOLEAN : IngressAssociate(ok))))
    /\ [][\A a \in Ids :
             (rpc[a] = "touch" /\ rpc'[a] # "touch")
                => /\ rpc'[a] = "recv"
                   /\ lock = "free"
                   /\ cache' = get(cache, cache_key(asrc[a], adst[a]))]_vars
    /\ \A a \in Ids : (rpc[a] = "touch") ~> (rpc[a] = "recv")

\* C19 as amended: the lock is never held across an enqueue, and its holder
\* can always go on; a reply task parked at the lock can take it at once
\* when the lock is free, also while the ingress loop is parked on a full
\* queue; it leaves the wait only with the lock in hand, touching its key,
\* or because its shutdown signal fired; and it does eventually acquire
\* the lock unless the signal fires first or the relay process ends.
C19_NoLockQueueDeadlockAmended ==
    /\ [](ipc \in {"send", "blocked"} => lock = "free")
    /\ [](lock = "ingress"
             => (ipc = "associate" /\ ENABLED (\E ok \in BOOLEAN : IngressAssociate(ok))))
    /\ [](\A a \in Ids :
             (rpc[a] = "touch" /\ ipc \in {"send", "blocked"} /\ Running)
                => ENABLED ReplyTouch(a))
    /\ [][\A a \in Ids :
             (rpc[a] = "touch" /\ rpc'[a] # "touch")
                => \/ /\ rpc'[a] = "recv"
                      /\ lock = "free"
                      /\ cache' = get(cache, cache_key(asrc[a], adst[a]))
                   \/ /\ rpc'[a] = "done"
                      /\ WatcherFired(a)]_vars
    /\ \A a \in Ids :
          (rpc[a] = "touch") ~> (rpc[a] = "recv" \/ WatcherFired(a) \/ ~Running)

\* A reply task is parked at the lock, which is free again, its entry is in
\* the map, and the ingress loop is parked on the full queue of the task's
\* own association.
C19_Witness ==
    \E a \in Created :
        /\ rpc[a] = "touch"
        /\ lock = "free"
        /\ InCache(a)
        /\ ipc = "blocked"
        /\ iassoc = a
        /\ Running

\* C20 (only the miss path adds): a key gets an entry, or another
\* association, only in the step in which the factory call of the ingress
\* loop returns, and then it is the key of the datagram just received and
\* the association just created; a reply task's touch and the scan on
\* receive timeout leave every absent key absent.
C20_OnlyMissPathAdds ==
    [][/\ \A k \in Keys :
             (cache'[k].assoc # 0 /\ cache'[k].assoc # cache[k].assoc)
                 => /\ ipc = "associate"
                    /\ ipc' = "send"
                    /\ k = cache_key(isrc, idst)
                    /\ nassoc' = nassoc + 1
                    /\ cache'[k].assoc = nassoc'
       /\ \A a \in Ids :
             ReplyTouches(a) => \A k \in Keys : cache[k].assoc = 0 => cache'[k].assoc = 0
       /\ IngressTimeout => \A k \in Keys : cache[k].assoc = 0 => cache'[k].assoc = 0]_vars

\* The only flow has been evicted, its key is absent, and its reply task,
\* which has relayed a reply, is still in its loop.
C20_Witness ==
    /\ nassoc = 1
    /\ Evicted(1)
    /\ rpc[1] = "recv"
    /\ rout # NoSend
    /\ \A k \in Keys : cache[k].assoc = 0

====
